---------------------------- MODULE Spec2Model ----------------------------
(***************************************************************************)
(* Model of Backend/analyzer.py: the keyword-extraction pipeline           *)
(* (preprocess_text, extract_keywords_tfidf with its frequency fallback,   *)
(* get_word_frequencies, analyze_text).                                    *)
(*                                                                         *)
(* A text is a sequence of one-character strings, so that the regular      *)
(* expressions, str.split, str.strip and len() of the source act on        *)
(* characters as they do in Python.  A word (a token, a vocabulary term,   *)
(* a returned keyword) is a TLA+ string.  A weight is an integer number of *)
(* thousandths: round(x, 3) = 1.0 is the integer 1000.                     *)
(***************************************************************************)
EXTENDS Integers, Sequences, FiniteSets, TLC

VARIABLES
    pc,            \* position of the running call ("idle" when none runs)
    entry,         \* function the caller entered: analyze_text or extract_keywords_tfidf
    text,          \* argument text of the call
    max_words,     \* argument max_words of the call
    cleaned_text,  \* analyze_text: cleaned_text; the text extract_keywords_tfidf receives
    word_count,    \* analyze_text: word_count
    sentences,     \* extract_keywords_tfidf: sentences
    keywords,      \* value returned by extract_keywords_tfidf
    path,          \* which computation produced keywords: "none", "tfidf", "frequency"
    tfidf_raised,  \* the try block of extract_keywords_tfidf raised
    fallback_calls,\* calls of extract_keywords_frequency made by the running call
    result,        \* value the call returned to its caller
    STOP_WORDS,    \* module-level set STOP_WORDS
    candidates,    \* entries the computation had before it kept the first max_words
    calls,         \* calls made on the current input since the caller chose it
    prev_result    \* what the previous call on the same input returned

vars == <<pc, entry, text, max_words, cleaned_text, word_count, sentences,
          keywords, path, tfidf_raised, fallback_calls, result, STOP_WORDS,
          candidates, calls, prev_result>>

---------------------------------------------------------------------------
(* Bounds of the model.                                                    *)

\* Longest input, in sentences drawn from the sentence pool.
MaxSentences == 2

\* Calls the caller makes on one input before choosing another.
MaxCalls == 2

---------------------------------------------------------------------------
(* Characters.                                                             *)

LowerCase == <<"a", "b", "c", "d", "e", "f", "g", "h", "i", "j", "k", "l", "m",
               "n", "o", "p", "q", "r", "s", "t", "u", "v", "w", "x", "y", "z">>
UpperCase == <<"A", "B", "C", "D", "E", "F", "G", "H", "I", "J", "K", "L", "M",
               "N", "O", "P", "Q", "R", "S", "T", "U", "V", "W", "X", "Y", "Z">>
Digits == {"0", "1", "2", "3", "4", "5", "6", "7", "8", "9"}

Range(f) == {f[i] : i \in DOMAIN f}

LowerSet == Range(LowerCase)
UpperSet == Range(UpperCase)

\* str.lower() on one character.
LowerMap == [c \in UpperSet |-> LowerCase[CHOOSE i \in 1..26 : UpperCase[i] = c]]
Lower(c) == IF c \in UpperSet THEN LowerMap[c] ELSE c

\* \s, \S, \w, \d and [a-zA-Z] of the regular expressions.
IsSpace(c) == c \in {" ", "\t", "\n"}
IsDigit(c) == c \in Digits
IsLetter(c) == c \in LowerSet \/ c \in UpperSet
IsWordChar(c) == IsLetter(c) \/ IsDigit(c) \/ c = "_"

\* The Python string a sequence of characters spells.
RECURSIVE Str(_)
Str(w) == IF w = <<>> THEN "" ELSE w[1] \o Str(Tail(w))

\* Code-point order of the characters a vocabulary term can hold.
CodeOrder == <<" ">> \o LowerCase
OrdMap == [c \in Range(CodeOrder) |-> CHOOSE i \in 1..Len(CodeOrder) : CodeOrder[i] = c]

Min(a, b) == IF a <= b THEN a ELSE b

\* Python's a < b on two strings of such characters.
StrLess(a, b) ==
    LET m == Min(Len(a), Len(b))
        diff == {i \in 1..m : a[i] # b[i]}
    IN  IF diff = {} THEN Len(a) < Len(b)
        ELSE LET k == CHOOSE i \in diff : \A j \in diff : i <= j
             IN  OrdMap[a[k]] < OrdMap[b[k]]

---------------------------------------------------------------------------
(* STOP_WORDS: nltk's English stop words and the extension of the module.  *)

NltkEnglish == {
    "i", "me", "my", "myself", "we", "our", "ours", "ourselves", "you",
    "you're", "you've", "you'll", "you'd", "your", "yours", "yourself",
    "yourselves", "he", "him", "his", "himself", "she", "she's", "her",
    "hers", "herself", "it", "it's", "its", "itself", "they", "them",
    "their", "theirs", "themselves", "what", "which", "who", "whom", "this",
    "that", "that'll", "these", "those", "am", "is", "are", "was", "were",
    "be", "been", "being", "have", "has", "had", "having", "do", "does",
    "did", "doing", "a", "an", "the", "and", "but", "if", "or", "because",
    "as", "until", "while", "of", "at", "by", "for", "with", "about",
    "against", "between", "into", "through", "during", "before", "after",
    "above", "below", "to", "from", "up", "down", "in", "out", "on", "off",
    "over", "under", "again", "further", "then", "once", "here", "there",
    "when", "where", "why", "how", "all", "any", "both", "each", "few",
    "more", "most", "other", "some", "such", "no", "nor", "not", "only",
    "own", "same", "so", "than", "too", "very", "s", "t", "can", "will",
    "just", "don", "don't", "should", "should've", "now", "d", "ll", "m",
    "o", "re", "ve", "y", "ain", "aren", "aren't", "couldn", "couldn't",
    "didn", "didn't", "doesn", "doesn't", "hadn", "hadn't", "hasn",
    "hasn't", "haven", "haven't", "isn", "isn't", "ma", "mightn",
    "mightn't", "mustn", "mustn't", "needn", "needn't", "shan", "shan't",
    "shouldn", "shouldn't", "wasn", "wasn't", "weren", "weren't", "won",
    "won't", "wouldn", "wouldn't"
    }

Extension == {
    "said", "say", "says", "would", "could", "also", "may", "might", "one",
    "two", "three", "first", "second", "new", "like", "well", "get", "got",
    "make", "made", "take", "taken", "go", "going", "come", "coming", "see",
    "seen", "know", "known", "think", "thought", "tell", "told", "find",
    "found", "give", "given", "use", "used", "want", "wanted", "look",
    "looked", "year", "years", "time", "times", "people", "person", "thing",
    "things", "way", "ways", "day", "days"
    }

StopWordsLoaded == NltkEnglish \cup Extension

---------------------------------------------------------------------------
(* String helpers of the standard library.                                 *)

\* First index >= i of s that holds a whitespace character (Len(s)+1 if none).
RECURSIVE RunEnd(_, _)
RunEnd(s, i) == IF i > Len(s) \/ IsSpace(s[i]) THEN i ELSE RunEnd(s, i + 1)

\* First index >= i of s that holds no digit.
RECURSIVE DigitRunEnd(_, _)
DigitRunEnd(s, i) == IF i > Len(s) \/ ~IsDigit(s[i]) THEN i ELSE DigitRunEnd(s, i + 1)

\* First index >= i of s that holds no \w character.
RECURSIVE WordRunEnd(_, _)
WordRunEnd(s, i) == IF i > Len(s) \/ ~IsWordChar(s[i]) THEN i ELSE WordRunEnd(s, i + 1)

StartsWith(s, i, p) ==
    /\ i + Len(p) - 1 <= Len(s)
    /\ \A k \in 1..Len(p) : s[i + k - 1] = p[k]

\* str.lower()
str_lower(s) == [i \in 1..Len(s) |-> Lower(s[i])]

\* str.strip()
str_strip(s) ==
    LET ink == {i \in 1..Len(s) : ~IsSpace(s[i])}
    IN  IF ink = {} THEN <<>>
        ELSE SubSeq(s, CHOOSE i \in ink : \A j \in ink : i <= j,
                       CHOOSE i \in ink : \A j \in ink : i >= j)

\* str.split(sep) for a one-character separator: the pieces between the
\* separators, empty pieces included.
RECURSIVE str_split(_, _)
str_split(s, sep) ==
    LET at == {i \in 1..Len(s) : s[i] = sep}
    IN  IF at = {} THEN <<s>>
        ELSE LET k == CHOOSE i \in at : \A j \in at : i <= j
             IN  <<SubSeq(s, 1, k - 1)>> \o str_split(SubSeq(s, k + 1, Len(s)), sep)

\* str.replace(' ', '_') on a word.
RECURSIVE ReplaceSpaces(_)
ReplaceSpaces(w) ==
    IF w = <<>> THEN <<>>
    ELSE <<IF w[1] = " " THEN "_" ELSE w[1]>> \o ReplaceSpaces(Tail(w))

\* sort_order with equal keys in reverse order, as an unstable sort may
\* leave them.
RECURSIVE sort_order_unstable(_)
sort_order_unstable(keys) ==
    IF keys = <<>> THEN <<>>
    ELSE LET n == Len(keys)
             init == sort_order_unstable(SubSeq(keys, 1, n - 1))
         IN  SelectSeq(init, LAMBDA i : keys[i] > keys[n]) \o <<n>>
             \o SelectSeq(init, LAMBDA i : keys[i] <= keys[n])

\* The order in which sorted(seq, key=..., reverse=True) and
\* list.sort(key=..., reverse=True) leave the elements whose keys are `keys`:
\* the indices by descending key, equal keys in their original order.
RECURSIVE sort_order(_)
sort_order(keys) ==
    IF keys = <<>> THEN <<>>
    ELSE LET n == Len(keys)
             init == sort_order(SubSeq(keys, 1, n - 1))
         IN  SelectSeq(init, LAMBDA i : keys[i] >= keys[n]) \o <<n>>
             \o SelectSeq(init, LAMBDA i : keys[i] < keys[n])

\* round(num / den, 3) in thousandths, for num >= 0 and den > 0: the nearest
\* thousandth, a tie going to the even one.
Round3(num, den) ==
    LET q == (1000 * num) \div den
        r == (1000 * num) % den
    IN  IF 2 * r > den THEN q + 1
        ELSE IF 2 * r = den THEN q + (q % 2)
        ELSE q

---------------------------------------------------------------------------
(* preprocess_text                                                         *)

Http == <<"h", "t", "t", "p">>
Www == <<"w", "w", "w">>

\* http\S+|www\S+ matches at index i.
UrlAt(s, i) ==
    \/ StartsWith(s, i, Http) /\ i + 4 <= Len(s) /\ ~IsSpace(s[i + 4])
    \/ StartsWith(s, i, Www) /\ i + 3 <= Len(s) /\ ~IsSpace(s[i + 3])

\* re.sub(r'http\S+|www\S+', '', s) from index i on.
RECURSIVE sub_urls(_, _)
sub_urls(s, i) ==
    IF i > Len(s) THEN <<>>
    ELSE IF UrlAt(s, i) THEN sub_urls(s, RunEnd(s, i))
    ELSE <<s[i]>> \o sub_urls(s, i + 1)

\* \S+@\S+ matches at index i: an @ later in the run, with a character after it.
EmailAt(s, i) ==
    /\ ~IsSpace(s[i])
    /\ \E k \in (i + 1)..(RunEnd(s, i) - 2) : s[k] = "@"

\* re.sub(r'\S+@\S+', '', s) from index i on.
RECURSIVE sub_emails(_, _)
sub_emails(s, i) ==
    IF i > Len(s) THEN <<>>
    ELSE IF EmailAt(s, i) THEN sub_emails(s, RunEnd(s, i))
    ELSE <<s[i]>> \o sub_emails(s, i + 1)

\* \b\d+\b matches at index i: a whole run of digits between word boundaries.
NumberAt(s, i) ==
    /\ IsDigit(s[i])
    /\ i = 1 \/ ~IsWordChar(s[i - 1])
    /\ LET j == DigitRunEnd(s, i) IN j > Len(s) \/ ~IsWordChar(s[j])

\* re.sub(r'\b\d+\b', '', s) from index i on.
RECURSIVE sub_numbers(_, _)
sub_numbers(s, i) ==
    IF i > Len(s) THEN <<>>
    ELSE IF NumberAt(s, i) THEN sub_numbers(s, DigitRunEnd(s, i))
    ELSE <<s[i]>> \o sub_numbers(s, i + 1)

\* re.sub(r'[^\w\s]', ' ', s)
sub_special(s) ==
    [i \in 1..Len(s) |-> IF IsWordChar(s[i]) \/ IsSpace(s[i]) THEN s[i] ELSE " "]

\* First index >= i of s that holds no whitespace character.
RECURSIVE SpaceRunEnd(_, _)
SpaceRunEnd(s, i) == IF i > Len(s) \/ ~IsSpace(s[i]) THEN i ELSE SpaceRunEnd(s, i + 1)

\* re.sub(r'\s+', ' ', s) from index i on.
RECURSIVE sub_whitespace(_, _)
sub_whitespace(s, i) ==
    IF i > Len(s) THEN <<>>
    ELSE IF IsSpace(s[i]) THEN <<" ">> \o sub_whitespace(s, SpaceRunEnd(s, i))
    ELSE <<s[i]>> \o sub_whitespace(s, i + 1)

preprocess_text(t) ==
    LET lowered == str_lower(t)
        no_urls == sub_urls(lowered, 1)
        no_emails == sub_emails(no_urls, 1)
        no_numbers == sub_numbers(no_emails, 1)
        no_special == sub_special(no_numbers)
        collapsed == sub_whitespace(no_special, 1)
    IN  str_strip(collapsed)

---------------------------------------------------------------------------
(* nltk.tokenize on the texts of this model: letters, digits, underscores, *)
(* whitespace, and full stops that end a word.                             *)

SentenceEnd == {".", "?", "!"}

\* Index of the first sentence-ending character of s that whitespace and
\* then another token follow (0 if none).
FirstBreak(s) ==
    LET at == {i \in 1..Len(s) : /\ s[i] \in SentenceEnd
                                 /\ i < Len(s)
                                 /\ IsSpace(s[i + 1])
                                 /\ SpaceRunEnd(s, i + 1) <= Len(s)}
    IN  IF at = {} THEN 0 ELSE CHOOSE i \in at : \A j \in at : i <= j

\* sent_tokenize(s): the sentences of s, each ending at a sentence-ending
\* character followed by whitespace; no sentence for an empty text.
RECURSIVE sent_tokenize(_)
sent_tokenize(s) ==
    IF str_strip(s) = <<>> THEN <<>>
    ELSE LET k == FirstBreak(s)
         IN  IF k = 0 THEN <<str_strip(s)>>
             ELSE <<str_strip(SubSeq(s, 1, k))>> \o sent_tokenize(SubSeq(s, k + 1, Len(s)))

\* The whitespace-separated tokens of s from index i on.
RECURSIVE WhitespaceTokens(_, _)
WhitespaceTokens(s, i) ==
    IF i > Len(s) THEN <<>>
    ELSE IF IsSpace(s[i]) THEN WhitespaceTokens(s, SpaceRunEnd(s, i))
    ELSE <<SubSeq(s, i, RunEnd(s, i) - 1)>> \o WhitespaceTokens(s, RunEnd(s, i))

\* The tokens of one sentence: its final full stop is a token of its own.
SentenceTokens(s) ==
    LET toks == WhitespaceTokens(s, 1)
        n == Len(toks)
    IN  IF n > 0 /\ Len(toks[n]) > 1 /\ toks[n][Len(toks[n])] \in SentenceEnd
        THEN SubSeq(toks, 1, n - 1)
             \o <<SubSeq(toks[n], 1, Len(toks[n]) - 1), <<toks[n][Len(toks[n])]>> >>
        ELSE toks

RECURSIVE Flatten(_)
Flatten(ss) == IF ss = <<>> THEN <<>> ELSE ss[1] \o Flatten(Tail(ss))

\* word_tokenize(s): the tokens of the sentences of s, as strings.
word_tokenize(s) ==
    LET sents == sent_tokenize(s)
        toks == Flatten([i \in 1..Len(sents) |-> SentenceTokens(sents[i])])
    IN  [i \in 1..Len(toks) |-> Str(toks[i])]

---------------------------------------------------------------------------
(* get_word_frequencies and extract_keywords_frequency                     *)

\* freq_dict[word] = freq_dict.get(word, 0) + 1 on a dict kept as the
\* sequence of its items in insertion order.
DictIncrement(d, word) ==
    IF \E i \in 1..Len(d) : d[i].word = word
    THEN [i \in 1..Len(d) |->
            IF d[i].word = word THEN [d[i] EXCEPT !.count = @ + 1] ELSE d[i]]
    ELSE Append(d, [word |-> word, count |-> 1])

\* CountFrom without the test against STOP_WORDS.
RECURSIVE CountFromUnfiltered(_, _, _)
CountFromUnfiltered(words, i, d) ==
    IF i > Len(words) THEN d
    ELSE CountFromUnfiltered(words, i + 1,
                             IF Len(words[i]) >= 3
                             THEN DictIncrement(d, words[i]) ELSE d)

\* The loop of get_word_frequencies over words[i..].
RECURSIVE CountFrom(_, _, _)
CountFrom(words, i, d) ==
    IF i > Len(words) THEN d
    ELSE CountFrom(words, i + 1,
                   IF Len(words[i]) >= 3 /\ words[i] \notin STOP_WORDS
                   THEN DictIncrement(d, words[i]) ELSE d)

get_word_frequencies(t) == CountFrom(word_tokenize(t), 1, <<>>)

\* dict.get(word, default)
DictGet(d, word, default) ==
    IF \E i \in 1..Len(d) : d[i].word = word
    THEN d[CHOOSE i \in 1..Len(d) : d[i].word = word].count
    ELSE default

\* sorted(word_freq.items(), key=lambda x: x[1], reverse=True)
sorted_items(word_freq) ==
    LET order == sort_order([i \in 1..Len(word_freq) |-> word_freq[i].count])
    IN  [i \in 1..Len(order) |-> word_freq[order[i]]]

\* top_n that keeps one entry too many.
top_n_plus_one(seq, n) == SubSeq(seq, 1, Min(n + 1, Len(seq)))

\* seq[:n]
top_n(seq, n) == SubSeq(seq, 1, Min(n, Len(seq)))

\* The loop of extract_keywords_frequency over top_words, and the empty
\* list for no top_words.
frequency_word_data(top_words) ==
    IF top_words = <<>> THEN <<>>
    ELSE [i \in 1..Len(top_words) |->
            [word |-> top_words[i].word,
             weight |-> Round3(top_words[i].count, top_words[1].count),
             frequency |-> top_words[i].count]]

extract_keywords_frequency(t, mw) ==
    frequency_word_data(top_n(sorted_items(get_word_frequencies(t)), mw))

---------------------------------------------------------------------------
(* TfidfVectorizer(max_features=max_words * 3, stop_words=list(STOP_WORDS), *)
(* ngram_range=(1, 2), min_df=1, max_df=0.95,                              *)
(* token_pattern=r'\b[a-zA-Z]{3,}\b').fit_transform, in fixed point.       *)

MAX_FEATURES_FACTOR == 3
MIN_DF == 1
MAX_DF_PERCENT == 95

\* \b[a-zA-Z]{3,}\b from index i on: the maximal runs of \w characters that
\* are three or more letters and nothing else.
RECURSIVE PatternTokens(_, _)
PatternTokens(doc, i) ==
    IF i > Len(doc) THEN <<>>
    ELSE IF ~IsWordChar(doc[i]) THEN PatternTokens(doc, i + 1)
    ELSE LET j == WordRunEnd(doc, i)
             run == SubSeq(doc, i, j - 1)
         IN  (IF Len(run) >= 3 /\ \A k \in 1..Len(run) : IsLetter(run[k])
              THEN <<run>> ELSE <<>>)
             \o PatternTokens(doc, j)

\* The analyzer of the vectorizer: lowercase, tokenize, drop the stop words,
\* then the unigrams followed by the bigrams of what is left.
build_analyzer(doc) ==
    LET toks == PatternTokens(str_lower(doc), 1)
        kept == SelectSeq(toks, LAMBDA t : Str(t) \notin STOP_WORDS)
    IN  IF Len(kept) < 2 THEN kept
        ELSE kept \o [i \in 1..(Len(kept) - 1) |-> kept[i] \o <<" ">> \o kept[i + 1]]

\* sorted(terms): the terms of a set in ascending string order.
RECURSIVE SortTerms(_)
SortTerms(S) ==
    IF S = {} THEN <<>>
    ELSE LET least == CHOOSE a \in S : \A b \in S \ {a} : StrLess(a, b)
         IN  <<least>> \o SortTerms(S \ {least})

RECURSIVE SumSeq(_)
SumSeq(q) == IF q = <<>> THEN 0 ELSE q[1] + SumSeq(Tail(q))

\* 1000 * ln(k), rounded, for k = 1..12 (numpy.log on the document counts
\* of this model).
LnMilli == <<0, 693, 1099, 1386, 1609, 1792, 1946, 2079, 2197, 2303, 2398, 2485>>

\* floor(sqrt(x)) for lo <= floor(sqrt(x)) <= hi.
RECURSIVE ISqrtIn(_, _, _)
ISqrtIn(x, lo, hi) ==
    IF lo >= hi THEN lo
    ELSE LET mid == (lo + hi + 1) \div 2
         IN  IF mid * mid <= x THEN ISqrtIn(x, mid, hi) ELSE ISqrtIn(x, lo, mid - 1)

ISqrt(x) == ISqrtIn(x, 0, 46340)

\* _limit_features: among the terms whose document frequency is in range,
\* in string order, the `limit` terms of highest total count (argsort of
\* the negated counts takes equal counts in index order), still in string
\* order.
limit_features(sorted, tfs, limit) ==
    IF Len(sorted) <= limit THEN sorted
    ELSE LET order == sort_order([i \in 1..Len(sorted) |-> tfs[sorted[i]]])
             chosen == {order[i] : i \in 1..limit}
             idx == SelectSeq([i \in 1..Len(sorted) |-> i], LAMBDA i : i \in chosen)
         IN  [i \in 1..Len(idx) |-> sorted[idx[i]]]

\* The count matrix of CountVectorizer, by term and document, over the
\* vocabulary of the analyzed documents.
count_matrix(analyzed) ==
    [t \in UNION {Range(analyzed[d]) : d \in 1..Len(analyzed)} |->
        [d \in 1..Len(analyzed) |-> Len(SelectSeq(analyzed[d], LAMBDA x : x = t))]]

\* Documents that hold term t, and occurrences of t in all documents.
doc_freq(counts, t) == Cardinality({d \in DOMAIN counts[t] : counts[t][d] > 0})
term_freq(counts, t) == SumSeq(counts[t])

\* The feature names: the terms with min_df <= df <= max_df * n_doc, in
\* string order, limited to max_features.
select_features(counts, n, limit) ==
    limit_features(
        SortTerms({t \in DOMAIN counts : /\ 100 * doc_freq(counts, t) <= MAX_DF_PERCENT * n
                                         /\ doc_freq(counts, t) >= MIN_DF}),
        [t \in DOMAIN counts |-> term_freq(counts, t)],
        limit)

\* TfidfTransformer with smooth_idf: idf = ln((1 + n) / (1 + df)) + 1, in
\* thousandths.
idf(n, df) == LnMilli[n + 1] - LnMilli[df + 1] + 1000

\* count * idf by feature and document.
tf_idf(counts, feature_names, n) ==
    [i \in 1..Len(feature_names) |->
        [d \in 1..n |-> counts[feature_names[i]][d]
                        * idf(n, doc_freq(counts, feature_names[i]))]]

\* The Euclidean norm of each document's row.
row_norms(raw, n) ==
    [d \in 1..n |-> ISqrt(SumSeq([i \in 1..Len(raw) |-> raw[i][d] * raw[i][d]]))]

\* tfidf_matrix.mean(axis=0) of the l2-normalized rows, in units of 1/10000.
mean_scores(raw, norms, n) ==
    [i \in 1..Len(raw) |->
        SumSeq([d \in 1..n |->
                  IF norms[d] = 0 THEN 0 ELSE (raw[i][d] * 10000) \div norms[d]])
        \div n]

\* What fit_transform did.
FitRaised == [raised |-> TRUE, feature_names |-> <<>>, avg_tfidf_scores |-> <<>>]

fit_scores(feature_names, raw, n) ==
    [raised |-> FALSE,
     feature_names |-> feature_names,
     avg_tfidf_scores |-> mean_scores(raw, row_norms(raw, n), n)]

\* ValueError("After pruning, no terms remain") for no feature.
fit_features(counts, feature_names, n) ==
    IF feature_names = <<>> THEN FitRaised
    ELSE fit_scores(feature_names, tf_idf(counts, feature_names, n), n)

\* ValueError("empty vocabulary") for no term, ValueError for max_df below
\* min_df.
fit_counts(counts, n, limit) ==
    IF DOMAIN counts = {} \/ MAX_DF_PERCENT * n < 100 * MIN_DF THEN FitRaised
    ELSE fit_features(counts, select_features(counts, n, limit), n)

\* vectorizer.fit_transform(sentences), vectorizer.get_feature_names_out()
\* and tfidf_matrix.mean(axis=0): raised says that fit_transform raised.
fit_transform(docs, mw) ==
    fit_counts(count_matrix([d \in 1..Len(docs) |-> build_analyzer(docs[d])]),
               Len(docs), mw * MAX_FEATURES_FACTOR)

---------------------------------------------------------------------------
(* extract_keywords_tfidf                                                  *)

MIN_FRAGMENT_LEN == 20
MIN_SENTENCES == 3
MIN_DOCUMENTS == 2

\* [s.strip() for s in text.split('.') if len(s.strip()) > 20]
period_fragments(t) ==
    LET pieces == str_split(t, ".")
        stripped == [i \in 1..Len(pieces) |-> str_strip(pieces[i])]
    IN  SelectSeq(stripped, LAMBDA s : Len(s) > MIN_FRAGMENT_LEN)

\* segment that keeps every period fragment, whatever its length.
segment_unfiltered(t) ==
    LET sents == sent_tokenize(t)
    IN  IF Len(sents) < MIN_SENTENCES
        THEN SelectSeq([i \in 1..Len(str_split(t, ".")) |-> str_strip(str_split(t, ".")[i])],
                       LAMBDA s : s # <<>>)
        ELSE sents

\* The sentences the function works on: sent_tokenize(text), or the period
\* fragments when there are fewer than 3 sentences.
segment(t) ==
    LET sents == sent_tokenize(t)
    IN  IF Len(sents) < MIN_SENTENCES THEN period_fragments(t) ELSE sents

\* word_data after the loop over zip(feature_names, avg_tfidf_scores).
tfidf_word_data(word_freq, fit) ==
    SelectSeq([i \in 1..Len(fit.feature_names) |->
                  [word |-> Str(ReplaceSpaces(fit.feature_names[i])),
                   weight |-> fit.avg_tfidf_scores[i],
                   frequency |-> DictGet(word_freq, Str(fit.feature_names[i]), 1)]],
              LAMBDA item : item.weight > 0)

\* word_data.sort(key=lambda x: x['weight'], reverse=True)
sorted_word_data(word_data) ==
    LET order == sort_order([i \in 1..Len(word_data) |-> word_data[i].weight])
    IN  [i \in 1..Len(order) |-> word_data[order[i]]]

\* normalized that divides by the weight of the last item.
normalized_by_last(word_data) ==
    IF word_data # <<>> /\ word_data[Len(word_data)].weight > 0
    THEN [i \in 1..Len(word_data) |->
            [word_data[i] EXCEPT !.weight = Round3(@, word_data[Len(word_data)].weight)]]
    ELSE word_data

\* The weights divided by the weight of the first item and rounded.
normalized(word_data) ==
    IF word_data # <<>> /\ word_data[1].weight > 0
    THEN [i \in 1..Len(word_data) |->
            [word_data[i] EXCEPT !.weight = Round3(@, word_data[1].weight)]]
    ELSE word_data

\* word_data before result = word_data[:max_words].
tfidf_ranked(t, fit) ==
    normalized(sorted_word_data(tfidf_word_data(get_word_frequencies(t), fit)))

---------------------------------------------------------------------------
(* The texts and max_words values the callers pass.                        *)

\* Sentences of article text, as main.py passes them to analyze_text.
SentencePool == <<
    <<"T", "h", "e", " ", "c", "a", "t", " ", "s", "a", "t", " ", "o", "n", " ", "t", "h", "e", " ", "m", "a", "t">>,
    <<"T", "h", "e", " ", "c", "a", "t", " ", "w", "a", "s", " ", "h", "a", "p", "p", "y">>,
    <<"A", " ", "h", "a", "p", "p", "y", " ", "c", "a", "t", " ", "p", "u", "r", "r", "s">>,
    <<"Q", "u", "i", "c", "k", " ", "b", "r", "o", "w", "n", " ", "f", "o", "x">>,
    <<"t", "h", "e", " ", "a", " ", "a", "n", " ", "i", "s", " ", "o", "f">>,
    <<"t", "h", "i", "s", " ", "i", "s", " ", "w", "h", "a", "t", " ", "i", "t", " ", "w", "a", "s", " ", "f", "o", "r", " ", "t", "h", "e", "m">>,
    <<"h", "a", "p", "p", "y", " ", "c", "a", "t", " ", "p", "u", "r", "r", "s", " ", "a", "n", "d", " ", "p", "u", "r", "r", "s", " ", "l", "o", "u", "d", "l", "y">>,
    <<"S", "e", "e", " ", "h", "t", "t", "p", ":", "/", "/", "t", ".", "c", "o", " ", "w", "w", "w", ".", "x", ".", "i", "o", ",", " ", "a", "@", "b", ".", "c", " ", "4", "2", " ", "c", "a", "t", "s", " ", "5", "g">> >>

\* The sentences of the pool that hold words and spaces only.
PlainSentences == Len(SentencePool) - 1

\* "s1. s2. s3." for the sentences ss.
RECURSIVE JoinSentences(_)
JoinSentences(ss) ==
    IF ss = <<>> THEN <<>>
    ELSE ss[1] \o <<".">> \o (IF Len(ss) > 1 THEN <<" ">> ELSE <<>>)
         \o JoinSentences(Tail(ss))

\* The texts of at most MaxSentences sentences among the first n of the pool.
TextsOver(n) ==
    {JoinSentences([i \in 1..Len(pick) |-> SentencePool[pick[i]]]) :
        pick \in UNION {[1..k -> 1..n] : k \in 0..MaxSentences}}

CatExample == JoinSentences(<<SentencePool[1], SentencePool[2], SentencePool[3]>>)
FoxExample == JoinSentences(<<SentencePool[4]>>)
StopWordExample == SentencePool[5]

\* Raw article texts given to analyze_text.
AnalyzeInputs == TextsOver(Len(SentencePool)) \cup {CatExample, StopWordExample}

\* Texts given to extract_keywords_tfidf directly: lowercase, made of words,
\* spaces and the full stops that end the sentences.
ExtractInputs ==
    {str_lower(t) : t \in TextsOver(PlainSentences) \cup {CatExample, StopWordExample}}

DEFAULT_MAX_WORDS == 50

\* Values of max_words: small ones that truncate, and the default.
MaxWordsChoices == {1, 2, 5, DEFAULT_MAX_WORDS}

---------------------------------------------------------------------------
(* Values a call returns.                                                  *)

\* None
None == [tag |-> "None", words |-> <<>>, word_count |-> 0]

\* {'words': keywords, 'word_count': word_count}
Dict(kw, wc) == [tag |-> "dict", words |-> kw, word_count |-> wc]

\* The list extract_keywords_tfidf returns.
List(kw) == [tag |-> "list", words |-> kw, word_count |-> 0]

\* An exception leaving the call.
Raised == [tag |-> "raised", words |-> <<>>, word_count |-> 0]

\* No call has returned yet.
NoResult == [tag |-> "none", words |-> <<>>, word_count |-> 0]

---------------------------------------------------------------------------
(* The state machine: one call at a time, step by step.                    *)

Init ==
    /\ pc = "idle"
    /\ entry = "none"
    /\ text = <<>>
    /\ max_words = DEFAULT_MAX_WORDS
    /\ cleaned_text = <<>>
    /\ word_count = 0
    /\ sentences = <<>>
    /\ keywords = <<>>
    /\ path = "none"
    /\ tfidf_raised = FALSE
    /\ fallback_calls = 0
    /\ result = NoResult
    /\ STOP_WORDS = StopWordsLoaded
    /\ candidates = 0
    /\ calls = 0
    /\ prev_result = NoResult

\* The locals of a call that has not started.
FreshLocals ==
    /\ word_count' = 0
    /\ sentences' = <<>>
    /\ keywords' = <<>>
    /\ path' = "none"
    /\ tfidf_raised' = FALSE
    /\ fallback_calls' = 0
    /\ candidates' = 0
    /\ result' = NoResult

\* main.py calls analyze_text(text, max_words).
CallAnalyze ==
    /\ pc = "idle"
    /\ \E t \in AnalyzeInputs, mw \in MaxWordsChoices :
          /\ text' = t
          /\ max_words' = mw
    /\ entry' = "analyze_text"
    /\ pc' = "preprocess"
    /\ cleaned_text' = <<>>
    /\ calls' = 1
    /\ prev_result' = NoResult
    /\ FreshLocals
    /\ UNCHANGED STOP_WORDS

\* A caller calls extract_keywords_tfidf(text, max_words) itself.
CallExtract ==
    /\ pc = "idle"
    /\ \E t \in ExtractInputs, mw \in MaxWordsChoices :
          /\ text' = t
          /\ cleaned_text' = t
          /\ max_words' = mw
    /\ entry' = "extract_keywords_tfidf"
    /\ pc' = "segment"
    /\ calls' = 1
    /\ prev_result' = NoResult
    /\ FreshLocals
    /\ UNCHANGED STOP_WORDS

\* analyze_text: cleaned_text = preprocess_text(text); return None if empty.
Preprocess ==
    /\ pc = "preprocess"
    /\ cleaned_text' = preprocess_text(text)
    /\ IF cleaned_text' = <<>>
       THEN /\ result' = None
            /\ pc' = "done"
       ELSE /\ result' = result
            /\ pc' = "count"
    /\ UNCHANGED <<entry, text, max_words, word_count, sentences, keywords, path,
                   tfidf_raised, fallback_calls, STOP_WORDS, candidates, calls,
                   prev_result>>

\* analyze_text: word_count = len(word_tokenize(cleaned_text.lower())).
CountWords ==
    /\ pc = "count"
    /\ word_count' = Len(word_tokenize(str_lower(cleaned_text)))
    /\ pc' = "segment"
    /\ UNCHANGED <<entry, text, max_words, cleaned_text, sentences, keywords, path,
                   tfidf_raised, fallback_calls, result, STOP_WORDS, candidates,
                   calls, prev_result>>

\* extract_keywords_tfidf: the sentences, and the test for fewer than 2.
Segment ==
    /\ pc = "segment"
    /\ sentences' = segment(cleaned_text)
    /\ pc' = IF Len(sentences') < MIN_DOCUMENTS THEN "frequency" ELSE "tfidf"
    /\ UNCHANGED <<entry, text, max_words, cleaned_text, word_count, keywords, path,
                   tfidf_raised, fallback_calls, result, STOP_WORDS, candidates,
                   calls, prev_result>>

\* The end of the try block for ranked word_data.
TfidfReturns(word_data) ==
    /\ keywords' = top_n(word_data, max_words)
    /\ candidates' = Len(word_data)
    /\ path' = "tfidf"
    /\ pc' = "return"
    /\ UNCHANGED <<tfidf_raised, result>>

\* TfidfCaught without the except clause: the exception leaves the call.
TfidfUncaught ==
    /\ tfidf_raised' = TRUE
    /\ result' = Raised
    /\ pc' = "done"
    /\ UNCHANGED <<keywords, path, candidates>>

\* except Exception: on to extract_keywords_frequency.
TfidfCaught ==
    /\ tfidf_raised' = TRUE
    /\ pc' = "frequency"
    /\ UNCHANGED <<keywords, path, candidates, result>>

TfidfOutcome(fit) ==
    IF fit.raised THEN TfidfCaught
    ELSE TfidfReturns(tfidf_ranked(cleaned_text, fit))

\* extract_keywords_tfidf: the vectorizer and the ranking; an exception is
\* caught and leads to extract_keywords_frequency.
Tfidf ==
    /\ pc = "tfidf"
    /\ TfidfOutcome(fit_transform(sentences, max_words))
    /\ UNCHANGED <<entry, text, max_words, cleaned_text, word_count, sentences,
                   fallback_calls, STOP_WORDS, calls, prev_result>>

\* What extract_keywords_frequency returns for word_freq.
FrequencyReturns(word_freq) ==
    /\ keywords' = frequency_word_data(top_n(sorted_items(word_freq), max_words))
    /\ candidates' = Len(word_freq)

\* Frequency that also adds the words it returns to STOP_WORDS.
FrequencyMarksWords ==
    /\ pc = "frequency"
    /\ FrequencyReturns(get_word_frequencies(cleaned_text))
    /\ STOP_WORDS' = STOP_WORDS \cup {keywords'[i].word : i \in 1..Len(keywords')}
    /\ path' = "frequency"
    /\ fallback_calls' = fallback_calls + 1
    /\ pc' = "return"
    /\ UNCHANGED <<entry, text, max_words, cleaned_text, word_count, sentences,
                   tfidf_raised, result, calls, prev_result>>

\* return extract_keywords_frequency(text, max_words)
Frequency ==
    /\ pc = "frequency"
    /\ FrequencyReturns(get_word_frequencies(cleaned_text))
    /\ path' = "frequency"
    /\ fallback_calls' = fallback_calls + 1
    /\ pc' = "return"
    /\ UNCHANGED <<entry, text, max_words, cleaned_text, word_count, sentences,
                   tfidf_raised, result, STOP_WORDS, calls, prev_result>>

\* Return without the test for no keywords.
ReturnUnchecked ==
    /\ pc = "return"
    /\ result' = IF entry = "extract_keywords_tfidf" THEN List(keywords)
                 ELSE Dict(keywords, word_count)
    /\ pc' = "done"
    /\ UNCHANGED <<entry, text, max_words, cleaned_text, word_count, sentences,
                   keywords, path, tfidf_raised, fallback_calls, STOP_WORDS,
                   candidates, calls, prev_result>>

\* extract_keywords_tfidf returns; analyze_text returns None without
\* keywords and the dictionary otherwise.
Return ==
    /\ pc = "return"
    /\ result' = IF entry = "extract_keywords_tfidf" THEN List(keywords)
                 ELSE IF keywords = <<>> THEN None
                 ELSE Dict(keywords, word_count)
    /\ pc' = "done"
    /\ UNCHANGED <<entry, text, max_words, cleaned_text, word_count, sentences,
                   keywords, path, tfidf_raised, fallback_calls, STOP_WORDS,
                   candidates, calls, prev_result>>

\* The caller makes the same call again.
Repeat ==
    /\ pc = "done"
    /\ calls < MaxCalls
    /\ calls' = calls + 1
    /\ prev_result' = result
    /\ pc' = IF entry = "analyze_text" THEN "preprocess" ELSE "segment"
    /\ cleaned_text' = IF entry = "analyze_text" THEN <<>> ELSE text
    /\ FreshLocals
    /\ UNCHANGED <<entry, text, max_words, STOP_WORDS>>

\* The caller is done with the input; only the module's globals remain.
Finish ==
    /\ pc = "done"
    /\ pc' = "idle"
    /\ entry' = "none"
    /\ text' = <<>>
    /\ max_words' = DEFAULT_MAX_WORDS
    /\ cleaned_text' = <<>>
    /\ calls' = 0
    /\ prev_result' = NoResult
    /\ FreshLocals
    /\ UNCHANGED STOP_WORDS

Next ==
    \/ CallAnalyze
    \/ CallExtract
    \/ Preprocess
    \/ CountWords
    \/ Segment
    \/ Tfidf
    \/ Frequency
    \/ Return
    \/ Repeat
    \/ Finish

Spec == Init /\ [][Next]_vars

---------------------------------------------------------------------------
(* Properties.                                                             *)

\* The call has computed its keywords.
Returned == pc \in {"return", "done"}

AnalyzeDone == pc = "done" /\ entry = "analyze_text"

\* Weights in non-increasing order, each in [0, 1], the first exactly 1.0.
Ranked(kw) ==
    /\ kw[1].weight = 1000
    /\ \A i \in 1..Len(kw) : 0 <= kw[i].weight /\ kw[i].weight <= 1000
    /\ \A i \in 1..Len(kw), j \in 1..Len(kw) : i < j => kw[i].weight >= kw[j].weight

HasKeyword(kw, word, freq) ==
    \E i \in 1..Len(kw) : kw[i].word = word /\ kw[i].frequency = freq

\* The meaningful words of a piece of raw text: not stop words, three
\* letters or more.
Meaningful(s) ==
    {Str(w) : w \in Range(PatternTokens(str_lower(s), 1))} \ STOP_WORDS

\* At least 2 distinct meaningful words in at least 2 distinct
\* sentence-like segments of the text.
RichInput(t) ==
    LET segs == sent_tokenize(t)
    IN  /\ Cardinality({i \in 1..Len(segs) : Meaningful(segs[i]) # {}}) >= 2
        /\ Cardinality(UNION {Meaningful(segs[i]) : i \in 1..Len(segs)}) >= 2

\* C1: analyze_text on a non-empty text with at least 2 distinct meaningful
\* words in at least 2 sentence-like segments produces its result on the
\* TF-IDF path, not the frequency fallback, and the result is non-empty,
\* sorted by weight descending, with top weight 1.0.
C1_PrimaryPathOnRichInput ==
    (AnalyzeDone /\ RichInput(text)) =>
        /\ path = "tfidf"
        /\ result.tag = "dict"
        /\ result.words # <<>>
        /\ Ranked(result.words)

\* C2: a failure inside the TF-IDF computation never leaves the call: it is
\* followed by exactly one call of extract_keywords_frequency on the same
\* text and max_words, whose value is what is returned; no call raises,
\* and the caller sees no keywords only when the fallback has none.
C2_FailureContained ==
    /\ result.tag # "raised"
    /\ fallback_calls <= 1
    /\ (tfidf_raised /\ Returned) =>
          /\ fallback_calls = 1
          /\ path = "frequency"
          /\ keywords = extract_keywords_frequency(cleaned_text, max_words)
    /\ (tfidf_raised /\ pc = "done") =>
          /\ result.words = keywords
          /\ result.tag = "None" => keywords = <<>>

\* A TF-IDF failure was caught and the fallback returned keywords.
C2_Witness ==
    /\ pc = "done"
    /\ tfidf_raised
    /\ fallback_calls = 1
    /\ result.words # <<>>

\* The failure analyze_text returns for an empty normalized text.
EmptyContent == None

\* Every token of the text is a stop word.
StopWordsOnly(t) ==
    \A w \in Range(WhitespaceTokens(sub_special(str_lower(t)), 1)) :
        Str(w) \in STOP_WORDS

C4_Truncation ==
    Returned =>
        /\ Len(keywords) <= max_words
        /\ candidates >= max_words => Len(keywords) = max_words
        /\ pc = "done" => Len(result.words) <= max_words

\* The TF-IDF path had more candidates than max_words and returned max_words.
C4_Witness ==
    /\ pc = "done"
    /\ path = "tfidf"
    /\ candidates > max_words
    /\ Len(result.words) = max_words

\* C5: in every non-empty keyword result, on either path, the weights are
\* non-increasing, lie in [0, 1], and the first is exactly 1.0.
C5_Normalized ==
    (Returned /\ keywords # <<>>) => Ranked(keywords)

\* The TF-IDF path returned keywords of different weights.
C5_Witness ==
    /\ pc = "done"
    /\ path = "tfidf"
    /\ Len(keywords) >= 2
    /\ keywords[Len(keywords)].weight < 1000

\* C6: no returned term is a stop word or shorter than 3 characters, and
\* every returned keyword has frequency >= 1.
C6_NoStopWords ==
    \A i \in 1..Len(keywords) :
        /\ keywords[i].word \notin STOP_WORDS
        /\ Len(keywords[i].word) >= 3
        /\ keywords[i].frequency >= 1

\* Keywords were returned for a text that holds stop words and short words.
C6_Witness ==
    /\ pc = "done"
    /\ keywords # <<>>
    /\ \E w \in Range(WhitespaceTokens(sub_special(str_lower(text)), 1)) :
          Str(w) \in STOP_WORDS /\ Len(w) >= 3
    /\ \E w \in Range(WhitespaceTokens(sub_special(str_lower(text)), 1)) :
          Str(w) \notin STOP_WORDS /\ Len(w) < 3

\* C7: a second call on the same text and max_words returns what the first
\* returned, and no call changes STOP_WORDS.
C7_Idempotent ==
    /\ (pc = "done" /\ calls >= 2) => result = prev_result
    /\ STOP_WORDS = StopWordsLoaded

\* A second call returned the keywords the first one returned.
C7_Witness ==
    /\ pc = "done"
    /\ calls = 2
    /\ prev_result.tag = "dict"
    /\ result = prev_result

\* C8: for the cat example with max_words = 5, analyze_text works on 3
\* sentences, on the TF-IDF path, and returns "cat" with frequency 3 and
\* "happy" with frequency 2, and none of "the", "was", "sat".
C8_CatExample ==
    (AnalyzeDone /\ text = CatExample /\ max_words = 5) =>
        /\ Len(sentences) = 3
        /\ path = "tfidf"
        /\ HasKeyword(result.words, "cat", 3)
        /\ HasKeyword(result.words, "happy", 2)
        /\ \A i \in 1..Len(result.words) : result.words[i].word \notin {"the", "was", "sat"}

\* Position of the first occurrence of a word among the tokens, and the
\* number of its occurrences.
FirstOccurrence(tokens, word) ==
    CHOOSE i \in 1..Len(tokens) : tokens[i] = word /\ \A j \in 1..(i - 1) : tokens[j] # word

Occurrences(tokens, word) == Cardinality({i \in 1..Len(tokens) : tokens[i] = word})

\* kw is the first mw entries of the counts of the counted words of tokens,
\* by count descending and then by first occurrence, with weight
\* count / top count rounded to 3 decimals.
FrequencyRanking(kw, tokens, mw) ==
    LET counted == {w \in Range(tokens) : Len(w) >= 3 /\ w \notin STOP_WORDS}
        Before(a, b) ==
            \/ Occurrences(tokens, a) > Occurrences(tokens, b)
            \/ /\ Occurrences(tokens, a) = Occurrences(tokens, b)
               /\ FirstOccurrence(tokens, a) < FirstOccurrence(tokens, b)
        returned == {kw[i].word : i \in 1..Len(kw)}
    IN  /\ Len(kw) = Min(mw, Cardinality(counted))
        /\ returned \subseteq counted
        /\ \A i \in 1..Len(kw) :
              /\ kw[i].frequency = Occurrences(tokens, kw[i].word)
              /\ kw[i].weight = Round3(kw[i].frequency, kw[1].frequency)
        /\ \A i \in 1..Len(kw), j \in 1..Len(kw) :
              i < j => Before(kw[i].word, kw[j].word)
        /\ \A w \in counted \ returned :
              \A i \in 1..Len(kw) : Before(kw[i].word, w)

\* C9: on the frequency fallback path the keywords are the first max_words
\* entries of the word frequencies by count descending, ties in
\* first-occurrence order, weight = count / top count rounded to 3
\* decimals, frequency = count; no entries give no keywords; the fox
\* example gives quick, brown, fox, all with weight 1.0.
C9_FrequencyFallback ==
    /\ (Returned /\ path = "frequency") =>
          FrequencyRanking(keywords, word_tokenize(cleaned_text), max_words)
    /\ (AnalyzeDone /\ text = FoxExample /\ max_words >= 3) =>
          result.words = << [word |-> "quick", weight |-> 1000, frequency |-> 1],
                            [word |-> "brown", weight |-> 1000, frequency |-> 1],
                            [word |-> "fox", weight |-> 1000, frequency |-> 1] >>

\* The fallback cut a ranking that holds two words of equal count.
C9_Witness ==
    /\ pc = "done"
    /\ path = "frequency"
    /\ candidates > max_words
    /\ Len(keywords) >= 2
    /\ keywords[1].frequency = keywords[2].frequency

\* The call is past the test on the number of sentences.
Segmented == pc \in {"tfidf", "frequency", "return", "done"} /\ (path # "none" \/ pc # "done")

====
